---- MODULE Spec2Model ----
(***************************************************************************)
(* keycloak-admin-client: the promise-based wrappers of the user-storage,   *)
(* identity-provider and authentication-flow admin endpoints.               *)
(*                                                                          *)
(* Every exported operation builds a request descriptor, hands it to the    *)
(* transport (the `request` library) together with a callback, and the      *)
(* callback settles the promise the operation returned.  The state is the   *)
(* client's private access token and the calls made so far, each with the   *)
(* request it issued, the response the transport delivered (if any) and the *)
(* state of its promise.                                                    *)
(*                                                                          *)
(* JavaScript strings are TLA+ strings; a Location header is a sequence of  *)
(* tokens, each either the separator "/" or a slash-free chunk of text, so  *)
(* that the regular expression that cuts the identifier out of it is        *)
(* modelled by what it does.  A URL is the tuple of the pieces its template *)
(* literal concatenates.  Objects are records; a missing key is a key that  *)
(* is not in the record's DOMAIN.                                           *)
(***************************************************************************)
EXTENDS Integers, Sequences, FiniteSets, TLC

\* ------------------------------------------------------------------ bounds

\* Calls the caller makes in one behaviour (create's read-back is not counted).
MaxCalls == 1
\* Finds in flight together in the specification of concurrent finds.
MaxFinds == 2
\* Calls in the specification of token rotation.
MaxTokenCalls == 2

\* ------------------------------------------------------------ JS values

\* The JS value undefined (a record, so that it compares with objects).
Undefined == [undefined |-> TRUE]
\* The object literal {}.
EmptyObject == [k \in {} |-> ""]
\* What a template literal prints for an undefined value.
UndefinedText == "undefined"

\* `x || {}`: undefined is replaced by a fresh empty object.
OrEmpty(x) == IF x = Undefined THEN EmptyObject ELSE x

\* obj.key : undefined when the key is missing.
HasKey(obj, key) == key \in DOMAIN obj

\* JS truthiness of obj.key for string-valued keys: missing and "" are falsy.
Truthy(obj, key) == HasKey(obj, key) /\ obj[key] # ""

\* `${obj.key}` inside a template literal.
Interpolate(obj, key) == IF HasKey(obj, key) THEN obj[key] ELSE UndefinedText

\* ------------------------------------------------------------- the client

BaseUrl == "https://host/auth"
InitialToken == "token0"
Tokens == {"token0", "token1"}

Modules == {"userStorage", "identityProvider", "authenticationFlow"}

Ops(m) ==
  CASE m = "userStorage" ->
         {"find", "create", "update", "remove", "removeImportedUsers",
          "triggerChangedUsersSync", "triggerFullSync", "unlinkImportedUsers"}
    [] m = "identityProvider" ->
         {"find", "create", "update", "remove", "exportConfiguration"}
    [] m = "authenticationFlow" -> {"find", "update"}

\* --------------------------------------------------- request descriptors

\* auth: { bearer: privates.get(client).accessToken }
AuthCaptured(token) == [bearer |-> InitialToken]
Auth(token) == [bearer |-> token]

RealmUrl(realm) == <<BaseUrl, "/admin/realms/", realm>>

\* user-storage -----------------------------------------------------------

UserStorageFindAlwaysQs(args, token) ==
  LET options == OrEmpty(args.options)
      req == [auth |-> Auth(token), json |-> TRUE, qs |-> options]
  IN IF Truthy(options, "id")
       THEN req @@ [url |-> RealmUrl(args.realm) \o <<"/components/", options.id>>]
       ELSE req @@ [url |-> RealmUrl(args.realm) \o
                      <<"/components?parent=", args.realm,
                        "&type=org.keycloak.storage.UserStorageProvider">>]

UserStorageFind(args, token) ==
  LET options == OrEmpty(args.options)
      req == [auth |-> Auth(token), json |-> TRUE]
  IN IF Truthy(options, "id")
       THEN req @@ [url |-> RealmUrl(args.realm) \o <<"/components/", options.id>>]
       ELSE req @@ [url |-> RealmUrl(args.realm) \o
                      <<"/components?parent=", args.realm,
                        "&type=org.keycloak.storage.UserStorageProvider">>,
                    qs |-> options]

UserStorageCreate(args, token) ==
  [url |-> RealmUrl(args.realm) \o <<"/components">>,
   auth |-> Auth(token), body |-> args.entity, method |-> "POST", json |-> TRUE]

UserStorageUpdate(args, token) ==
  LET userStorage == OrEmpty(args.entity)
  IN [url |-> RealmUrl(args.realm) \o <<"/components/", Interpolate(userStorage, "id")>>,
      auth |-> Auth(token), json |-> TRUE, method |-> "PUT", body |-> userStorage]

UserStorageRemove(args, token) ==
  [url |-> RealmUrl(args.realm) \o <<"/components/", args.id>>,
   auth |-> Auth(token), method |-> "DELETE"]

TriggerChangedUsersSync(args, token) ==
  [auth |-> Auth(token), json |-> TRUE,
   url |-> RealmUrl(args.realm) \o
             <<"/user-storage/", args.id, "/sync?action=triggerChangedUsersSync">>]

TriggerFullSync(args, token) ==
  [auth |-> Auth(token), json |-> TRUE,
   url |-> RealmUrl(args.realm) \o
             <<"/user-storage/", args.id, "/sync?action=triggerFullSync">>]

RemoveImportedUsers(args, token) ==
  [auth |-> Auth(token), json |-> TRUE,
   url |-> RealmUrl(args.realm) \o
             <<"/user-storage/", args.id, "/remove-imported-users">>]

UnlinkImportedUsers(args, token) ==
  [auth |-> Auth(token), json |-> TRUE,
   url |-> RealmUrl(args.realm) \o <<"/user-storage/", args.id, "/unlink-users">>]

\* identity-provider ------------------------------------------------------

IdentityProviderFind(args, token) ==
  LET options == OrEmpty(args.options)
      req == [auth |-> Auth(token), json |-> TRUE]
  IN IF Truthy(options, "alias")
       THEN req @@ [url |-> RealmUrl(args.realm) \o
                      <<"/identity-provider/instances/", options.alias>>]
       ELSE req @@ [url |-> RealmUrl(args.realm) \o <<"/identity-provider/instances">>,
                    qs |-> options]

IdentityProviderCreate(args, token) ==
  [url |-> RealmUrl(args.realm) \o <<"/identity-provider/instances">>,
   auth |-> Auth(token), body |-> args.entity, method |-> "POST", json |-> TRUE]

IdentityProviderUpdate(args, token) ==
  LET identityProvider == OrEmpty(args.entity)
  IN [url |-> RealmUrl(args.realm) \o
                <<"/identity-provider/instances/", Interpolate(identityProvider, "alias")>>,
      auth |-> Auth(token), json |-> TRUE, method |-> "PUT", body |-> identityProvider]

IdentityProviderRemove(args, token) ==
  [url |-> RealmUrl(args.realm) \o <<"/identity-provider/instances/", args.id>>,
   auth |-> Auth(token), method |-> "DELETE"]

ExportConfiguration(args, token) ==
  [auth |-> Auth(token), json |-> TRUE,
   url |-> RealmUrl(args.realm) \o
             <<"/identity-provider/instances/", args.id, "/export">>]

\* authentication-flow ----------------------------------------------------

AuthenticationFlowFind(args, token) ==
  LET options == OrEmpty(args.options)
  IN [auth |-> Auth(token), json |-> TRUE,
      url |-> RealmUrl(args.realm) \o
                <<"/authentication/flows/", args.flow, "/executions">>,
      qs |-> options]

AuthenticationFlowUpdate(args, token) ==
  [url |-> RealmUrl(args.realm) \o
             <<"/authentication/flows/", args.flow, "/executions">>,
   auth |-> Auth(token), json |-> TRUE, method |-> "PUT", body |-> args.entity]

\* The descriptor operation `op` of module `m` hands to request().
BuildRequest(m, op, args, token) ==
  CASE m = "userStorage" /\ op = "find" -> UserStorageFind(args, token)
    [] m = "userStorage" /\ op = "create" -> UserStorageCreate(args, token)
    [] m = "userStorage" /\ op = "update" -> UserStorageUpdate(args, token)
    [] m = "userStorage" /\ op = "remove" -> UserStorageRemove(args, token)
    [] m = "userStorage" /\ op = "triggerChangedUsersSync" ->
         TriggerChangedUsersSync(args, token)
    [] m = "userStorage" /\ op = "triggerFullSync" -> TriggerFullSync(args, token)
    [] m = "userStorage" /\ op = "removeImportedUsers" -> RemoveImportedUsers(args, token)
    [] m = "userStorage" /\ op = "unlinkImportedUsers" -> UnlinkImportedUsers(args, token)
    [] m = "identityProvider" /\ op = "find" -> IdentityProviderFind(args, token)
    [] m = "identityProvider" /\ op = "create" -> IdentityProviderCreate(args, token)
    [] m = "identityProvider" /\ op = "update" -> IdentityProviderUpdate(args, token)
    [] m = "identityProvider" /\ op = "remove" -> IdentityProviderRemove(args, token)
    [] m = "identityProvider" /\ op = "exportConfiguration" ->
         ExportConfiguration(args, token)
    [] m = "authenticationFlow" /\ op = "find" -> AuthenticationFlowFind(args, token)
    [] m = "authenticationFlow" /\ op = "update" -> AuthenticationFlowUpdate(args, token)

\* The status code the callback of `op` compares resp.statusCode with.
ExpectedStatusLax(op) ==
  CASE op = "create" -> 201
    [] OTHER -> 200

ExpectedStatusOk(op) == 200

ExpectedStatus(op) ==
  CASE op = "create" -> 201
    [] op \in {"update", "remove"} -> 204
    [] OTHER -> 200

\* What the transport does with a descriptor: json: true makes it encode the
\* request body and decode the response body; the method defaults to GET.
JsonEnabled(req) == HasKey(req, "json") /\ req.json
Method(req) == IF HasKey(req, "method") THEN req.method ELSE "GET"

\* ------------------------------------------------------------ the transport

\* The transport's error argument (null when the exchange completed).
NoError == [none |-> TRUE]
TransportError == [error |-> "ECONNREFUSED"]

\* A Location header: tokens, each "/" or a slash-free chunk of text.
Locations ==
  { <<"https:", "/", "/", "host", "/", "components", "/", "k1">>,
    <<"https:", "/", "/", "host", "/", "components", "/", "k2">>,
    <<"https:", "/", "/", "host", "/", "components", "/", "k1", "/">>,
    <<"k1">> }

NoHeaders == EmptyObject
Statuses == {200, 201, 204, 400}

\* The bytes of the body the server sent in answer to request `c`: every
\* response has a body of its own, so that a body tells whose response it was.
RawBody(c) == [text |-> c]

\* JSON.parse of a raw body.
Decode(raw) == [parsed |-> raw.text]

\* The `body` argument of the callback: decoded only when req.json is set.
CallbackBody(req, resp) == IF JsonEnabled(req) THEN Decode(resp.raw) ELSE resp.raw

\* The Location of an answer that is not a 201 (a redirect, for instance).
OtherLocation == <<"https:", "/", "/", "host", "/", "components", "/", "k1">>

\* The (err, resp) pairs the transport may answer request `c` with.  Only the
\* answers to a POST are given the header that create's callback reads; no
\* other callback looks at the headers.
Responses(c, req) ==
  { [err |-> TransportError] }
  \cup { [err |-> NoError, statusCode |-> s, headers |-> NoHeaders, raw |-> RawBody(c)] :
           s \in Statuses }
  \cup IF Method(req) # "POST" THEN {}
       ELSE { [err |-> NoError, statusCode |-> 201, headers |-> [location |-> l],
               raw |-> RawBody(c)] : l \in Locations }
            \cup { [err |-> NoError, statusCode |-> s,
                    headers |-> [location |-> OtherLocation], raw |-> RawBody(c)] :
                     s \in Statuses \ {201} }

\* location.replace(/.*\/(.*)$/, '$1'): the greedy .*\/ eats everything up to
\* the last "/", the group is what follows it; a text without "/" does not
\* match and is returned whole.
LastSlash(loc) ==
  IF \E i \in 1..Len(loc) : loc[i] = "/"
    THEN CHOOSE i \in 1..Len(loc) :
           loc[i] = "/" /\ \A j \in (i + 1)..Len(loc) : loc[j] # "/"
    ELSE 0

FirstSegment(loc) == IF Len(loc) = 0 \/ loc[1] = "/" THEN "" ELSE loc[1]

LastSegment(loc) ==
  LET i == LastSlash(loc)
  IN IF i = Len(loc) THEN "" ELSE loc[i + 1]

\* ------------------------------------------------------------------ state

VARIABLES
  accessToken,  \* privates.get(client).accessToken
  calls         \* the calls made so far, in the order they were made

vars == <<accessToken, calls>>

NoResponse == [pending |-> TRUE]
NoValue == [none |-> TRUE]

\* A call of an operation: its arguments, the descriptor it handed to the
\* transport, the transport's answer, and its promise.
\*   parent       the create call whose callback made this call (0: the caller)
\*   tokenAtCall  the stored access token when the call was made
\*   state, value the promise: pending | resolved | rejected
\*   follows      the call whose promise this promise was resolved with (0: none)
\*   resolved, rejected   how often the code called resolve() and reject()
\*   threw        the callback ended with an exception
NewCall(m, op, args, parent, token) ==
  [module |-> m, op |-> op, args |-> args, parent |-> parent,
   tokenAtCall |-> token,
   req |-> BuildRequest(m, op, args, token),
   resp |-> NoResponse,
   state |-> "pending", value |-> NoValue, follows |-> 0,
   resolved |-> 0, rejected |-> 0, threw |-> FALSE]

CallIds == 1..Len(calls)
RootCalls == {c \in CallIds : calls[c].parent = 0}
InFlight(c) == calls[c].resp = NoResponse

Init ==
  /\ accessToken = InitialToken
  /\ calls = <<>>


\* ---------------------------------------------------------------- promises

\* The promise whose resolve and reject the callback of request `c` closes
\* over: the one made by the call that issued the request.
SettledByLatest(c) == Len(calls)
SettledBy(c) == c

\* reject(v) and resolve(v): they settle a promise that is still pending and
\* not yet resolved with another promise, and do nothing otherwise.
Reject(call, v) ==
  IF call.state = "pending" /\ call.follows = 0
    THEN [call EXCEPT !.rejected = @ + 1, !.state = "rejected", !.value = v]
    ELSE [call EXCEPT !.rejected = @ + 1]

Resolve(call, v) ==
  IF call.state = "pending" /\ call.follows = 0
    THEN [call EXCEPT !.resolved = @ + 1, !.state = "resolved", !.value = v]
    ELSE [call EXCEPT !.resolved = @ + 1]

\* resolve(p) with p the promise of call `inner`: the promise stays pending
\* and takes p's outcome when p settles.
ResolveWith(call, inner) ==
  IF call.state = "pending" /\ call.follows = 0
    THEN [call EXCEPT !.resolved = @ + 1, !.follows = inner]
    ELSE [call EXCEPT !.resolved = @ + 1]

\* A promise resolved with another takes that promise's state and value.
AdoptAsResolved(outer, inner) ==
  [outer EXCEPT !.state = "resolved", !.value = inner.value]
Adopt(outer, inner) ==
  [outer EXCEPT !.state = inner.state, !.value = inner.value]

\* The calls after call `c` settled: the promises resolved with c's follow it.
Settled(cs, c) ==
  [p \in DOMAIN cs |->
     IF cs[p].follows = c /\ cs[p].state = "pending" /\ cs[c].state # "pending"
       THEN Adopt(cs[p], cs[c])
       ELSE cs[p]]

\* ------------------------------------------------------------------ inputs

Realms == {"master", "demo"}
Flows == {"browser"}
Ids == {"k1"}
FindOptions ==
  { Undefined, [id |-> "k1"], [alias |-> "k1"],
    [id |-> "", alias |-> "", max |-> "5"] }
NewEntities == { [name |-> "ldap"] }
Entities == { [id |-> "k1", alias |-> "k1"], Undefined }

\* The argument lists operation `op` of module `m` is called with, the realm
\* drawn from R and the options of a find from O.
ArgsOf(m, op, R, O) ==
  CASE m = "authenticationFlow" /\ op = "find" ->
         { [realm |-> r, flow |-> f, options |-> o] : r \in R, f \in Flows, o \in O }
    [] m = "authenticationFlow" /\ op = "update" ->
         { [realm |-> r, flow |-> f, entity |-> e] :
             r \in R, f \in Flows, e \in Entities }
    [] m # "authenticationFlow" /\ op = "find" ->
         { [realm |-> r, options |-> o] : r \in R, o \in O }
    [] m # "authenticationFlow" /\ op = "create" ->
         { [realm |-> r, entity |-> e] : r \in R, e \in NewEntities }
    [] m # "authenticationFlow" /\ op = "update" ->
         { [realm |-> r, entity |-> e] : r \in R, e \in Entities }
    [] OTHER -> { [realm |-> r, id |-> i] : r \in R, i \in Ids }

\* ----------------------------------------------------------------- actions

\* The caller calls operation `op` of module `m`: the promise is made and the
\* request is handed to the transport before the call returns.
Invoke(m, op, args) ==
  /\ calls' = Append(calls, NewCall(m, op, args, 0, accessToken))
  /\ UNCHANGED accessToken

\* The arguments of the find that create's callback reads the new resource
\* back with.
ReadBackArgs(m, realmName, uid) ==
  IF m = "identityProvider"
    THEN [realm |-> realmName, options |-> [alias |-> uid]]
    ELSE [realm |-> realmName, options |-> [id |-> uid]]

\* The callback every operation but create hands to request().
OnResponse(call, resp) ==
  IF resp.err # NoError
    THEN Reject(call, resp.err)
    ELSE IF resp.statusCode # ExpectedStatus(call.op)
      THEN Reject(call, CallbackBody(call.req, resp))
      ELSE Resolve(call, CallbackBody(call.req, resp))

\* The transport calls the callback of request `c` with (err, resp, body).
Callback(c, resp) ==
  /\ c \in CallIds
  /\ InFlight(c)
  /\ resp \in Responses(c, calls[c].req)
  /\ LET t == SettledBy(c)
         call == calls[t]
         got == [calls EXCEPT ![c].resp = resp]
     IN IF calls[c].op # "create"
          THEN calls' = Settled([got EXCEPT ![t] = OnResponse(got[t], resp)], t)
          ELSE IF resp.err # NoError
            THEN calls' = [got EXCEPT ![t] = Reject(got[t], resp.err)]
            ELSE IF resp.statusCode # ExpectedStatus("create")
              THEN calls' = [got EXCEPT
                               ![t] = Reject(got[t], CallbackBody(calls[c].req, resp))]
              ELSE IF ~HasKey(resp.headers, "location")
                \* resp.headers.location is undefined: .replace throws a
                \* TypeError inside the callback; neither resolve nor reject
                \* is called.
                THEN calls' = [got EXCEPT ![c].threw = TRUE]
                ELSE LET uid == LastSegment(resp.headers.location)
                         inner == NewCall(calls[c].module, "find",
                                          ReadBackArgs(calls[c].module,
                                                       calls[c].args.realm, uid),
                                          c, accessToken)
                     IN calls' = Append([got EXCEPT
                                           ![t] = ResolveWith(got[t], Len(calls) + 1)],
                                        inner)
  /\ UNCHANGED accessToken

\* The token is refreshed from outside these modules.
RotateToken ==
  /\ \E t \in Tokens \ {accessToken} : accessToken' = t
  /\ UNCHANGED calls

\* Every operation, on one realm, answered in every way.
Next ==
  \/ /\ Cardinality(RootCalls) < MaxCalls
     /\ \E m \in Modules : \E op \in Ops(m) :
          \E args \in ArgsOf(m, op, {"master"}, FindOptions) : Invoke(m, op, args)
  \/ \E c \in CallIds : \E resp \in Responses(c, calls[c].req) : Callback(c, resp)

Spec == Init /\ [][Next]_vars

\* Concurrent finds of the three modules on different realms with different
\* options, answered in every way and in every order.
ConcurrentOptions == { [max |-> "5"], [id |-> "k1", alias |-> "k1"] }

NextFinds ==
  \/ /\ Cardinality(RootCalls) < MaxFinds
     /\ \E m \in Modules :
          \E args \in ArgsOf(m, "find", Realms, ConcurrentOptions) :
            Invoke(m, "find", args)
  \/ \E c \in CallIds : \E resp \in Responses(c, calls[c].req) : Callback(c, resp)

SpecFinds == Init /\ [][NextFinds]_vars

\* Every operation, called by a caller that awaits each call before it makes
\* the next, while the token is replaced between and during the calls; the
\* server accepts every request.
Accepted(c, req) ==
  { r \in Responses(c, req) :
      /\ r.err = NoError
      /\ r.statusCode = ExpectedStatus(calls[c].op)
      /\ Method(req) = "POST" => r.headers = [location |-> OtherLocation] }

NextTokens ==
  \/ /\ Cardinality(RootCalls) < MaxTokenCalls
     /\ \A c \in CallIds : ~InFlight(c)
     /\ \E m \in Modules : \E op \in Ops(m) :
          \E args \in ArgsOf(m, op, {"master"}, {Undefined}) : Invoke(m, op, args)
  \/ \E c \in CallIds : \E resp \in Accepted(c, calls[c].req) : Callback(c, resp)
  \/ RotateToken

SpecTokens == Init /\ [][NextTokens]_vars

\* ---------------------------------------------------------------- claims
\* What the claims speak of, stated on its own terms and not through the
\* definitions above.

\* The transport has called the callback of request c.
Answered(c) == calls[c].resp # NoResponse
\* ... and the exchange completed with a status code.
Completed(c) == Answered(c) /\ calls[c].resp.err = NoError
StatusOf(c) == calls[c].resp.statusCode
\* The calls made by the callback of call c.
ReadBacks(c) == {d \in CallIds : calls[d].parent = c}
\* The decoded body of the response to request c.
DecodedBodyOf(c) == [parsed |-> c]
\* The status each operation is documented to expect.
DocumentedStatus(op) ==
  IF op = "create" THEN 201 ELSE IF op \in {"update", "remove"} THEN 204 ELSE 200
\* The text after the last "/" of a Location.
FinalSegment(loc) ==
  IF loc = <<>> \/ loc[Len(loc)] = "/" THEN "" ELSE loc[Len(loc)]
\* The URLs of the interface table.
SingleResourceUrl(m, realm, key) ==
  IF m = "identityProvider"
    THEN <<BaseUrl, "/admin/realms/", realm, "/identity-provider/instances/", key>>
    ELSE <<BaseUrl, "/admin/realms/", realm, "/components/", key>>
CollectionUrl(m, realm) ==
  IF m = "identityProvider"
    THEN <<BaseUrl, "/admin/realms/", realm, "/identity-provider/instances">>
    ELSE <<BaseUrl, "/admin/realms/", realm, "/components?parent=", realm,
           "&type=org.keycloak.storage.UserStorageProvider">>
ExecutionsUrl(realm, flow) ==
  <<BaseUrl, "/admin/realms/", realm, "/authentication/flows/", flow, "/executions">>
\* The options a find was called with, undefined read as {}.
OptionsOf(c) ==
  IF calls[c].args.options = Undefined THEN EmptyObject ELSE calls[c].args.options
\* The key a find by identifier is given: a non-empty id (alias).
FindKey(c) ==
  LET k == IF calls[c].module = "identityProvider" THEN "alias" ELSE "id"
  IN IF k \in DOMAIN OptionsOf(c) THEN OptionsOf(c)[k] ELSE ""

\* C1: whenever the call completes with a status other than the operation's
\* expected one, the promise is rejected, never resolved, and the rejection
\* value is exactly the decoded response body.
C1_MismatchRejectsWithDecodedBody ==
  \A c \in CallIds :
    (Completed(c) /\ StatusOf(c) # DocumentedStatus(calls[c].op)) =>
      /\ calls[c].state = "rejected"
      /\ calls[c].resolved = 0
      /\ calls[c].value = DecodedBodyOf(c)

C3_BearerIsTokenAtCall ==
  \A c \in CallIds : calls[c].req.auth.bearer = calls[c].tokenAtCall

\* C3's case: of two calls the later, made after the token was replaced,
\* carries the new token and the earlier the old one.
C3_Witness ==
  \E c, d \in RootCalls :
    /\ c < d
    /\ calls[c].req.auth.bearer = InitialToken
    /\ calls[d].tokenAtCall # InitialToken
    /\ calls[d].req.auth.bearer = calls[d].tokenAtCall

\* C4: every request descriptor has JSON encoding and decoding enabled.
C4_EveryRequestUsesJson ==
  \A c \in CallIds : "json" \in DOMAIN calls[c].req /\ calls[c].req.json = TRUE

\* C5: update and remove resolve with the response body if and only if the
\* status is exactly 204; any other status, 200 and 201 included, rejects.
C5_ResolvesOnlyOn204 ==
  \A c \in CallIds :
    (calls[c].op \in {"update", "remove"} /\ Answered(c)) =>
      /\ calls[c].state = "resolved" <=> (Completed(c) /\ StatusOf(c) = 204)
      /\ calls[c].state = "resolved" =>
           calls[c].value = CallbackBody(calls[c].req, calls[c].resp)
      /\ (Completed(c) /\ StatusOf(c) # 204) => calls[c].state = "rejected"

\* C5's case: an update or remove that the server answered 200 was rejected
\* with the body of that answer.
C5_Witness ==
  \E c \in CallIds :
    /\ calls[c].op \in {"update", "remove"}
    /\ Completed(c) /\ StatusOf(c) = 200
    /\ calls[c].state = "rejected"
    /\ calls[c].value = CallbackBody(calls[c].req, calls[c].resp)

\* C6: a call of an operation other than create issues exactly one request;
\* a call of create issues a second one only after its POST was answered 201
\* without a transport error, never more than two, never two in flight at once.
C6_OneRequestThenReadBack ==
  \A c \in CallIds :
    /\ Cardinality(ReadBacks(c)) <= 1
    /\ ReadBacks(c) # {} =>
         /\ calls[c].op = "create" /\ calls[c].parent = 0
         /\ Completed(c) /\ StatusOf(c) = 201
    /\ \A d \in ReadBacks(c) : d > c /\ calls[d].op = "find"

\* C6's case: a create has issued its second request and that request is in
\* flight after the first was answered.
C6_Witness ==
  \E c \in CallIds : \E d \in ReadBacks(c) :
    calls[c].op = "create" /\ Answered(c) /\ ~Answered(d)

\* C7: once the transport has called the callback of every request a call
\* issued, the call's promise is settled, by exactly one resolve or reject.
C7_SettledOnceAnswered ==
  \A c \in CallIds :
    (Answered(c) /\ \A d \in ReadBacks(c) : Answered(d)) =>
      /\ calls[c].state \in {"resolved", "rejected"}
      /\ calls[c].resolved + calls[c].rejected = 1

\* C8: concurrent finds do not mix: each request's URL names the realm of its
\* own call only, its query parameters are its own call's options, and each
\* promise settles with the answer to its own request.
C8_FindsDoNotMix ==
  \A c \in CallIds :
    /\ calls[c].req.url[3] = calls[c].args.realm
    /\ \A i \in DOMAIN calls[c].req.url :
         calls[c].req.url[i] \in Realms => calls[c].req.url[i] = calls[c].args.realm
    /\ "qs" \in DOMAIN calls[c].req => calls[c].req.qs = OptionsOf(c)
    /\ Answered(c) <=> calls[c].state # "pending"
    /\ calls[c].state = "resolved" =>
         (Completed(c) /\ StatusOf(c) = 200 /\ calls[c].value = DecodedBodyOf(c))
    /\ calls[c].state = "rejected" =>
         IF Completed(c)
           THEN StatusOf(c) # 200 /\ calls[c].value = DecodedBodyOf(c)
           ELSE calls[c].value = calls[c].resp.err

\* C8's case: two finds on different realms with different options were in
\* flight together, and the later was answered first.
C8_Witness ==
  \E c, d \in CallIds :
    /\ c < d
    /\ calls[c].args.realm # calls[d].args.realm
    /\ calls[c].args.options # calls[d].args.options
    /\ ~Answered(c)
    /\ calls[d].state = "resolved"

\* C9: a find with a key (id, or alias for identity providers) targets the
\* single-resource URL ending in the key and attaches no query parameters;
\* without one it targets the collection URL and attaches the options; an
\* authentication-flow find always targets the executions URL with the options.
C9_FindUrlVariant ==
  \A c \in CallIds :
    calls[c].op = "find" =>
      IF calls[c].module = "authenticationFlow"
        THEN /\ calls[c].req.url = ExecutionsUrl(calls[c].args.realm, calls[c].args.flow)
             /\ "qs" \in DOMAIN calls[c].req /\ calls[c].req.qs = OptionsOf(c)
        ELSE IF FindKey(c) # ""
          THEN /\ calls[c].req.url =
                    SingleResourceUrl(calls[c].module, calls[c].args.realm, FindKey(c))
               /\ "qs" \notin DOMAIN calls[c].req
          ELSE /\ calls[c].req.url = CollectionUrl(calls[c].module, calls[c].args.realm)
               /\ "qs" \in DOMAIN calls[c].req /\ calls[c].req.qs = OptionsOf(c)

\* C9's case: the caller's find by id went to the single-resource URL
\* without query parameters.
C9_Witness ==
  \E c \in RootCalls :
    /\ calls[c].op = "find" /\ calls[c].module = "userStorage"
    /\ FindKey(c) = "k1"
    /\ calls[c].req.url = SingleResourceUrl("userStorage", calls[c].args.realm, "k1")
    /\ "qs" \notin DOMAIN calls[c].req

\* C10: when the read-back of an accepted create is rejected, create is
\* rejected with exactly the read-back's rejection value, and issues no
\* further request.
C10_ReadBackRejectionPropagates ==
  \A c \in CallIds : \A d \in ReadBacks(c) :
    /\ calls[d].state = "rejected" =>
         (calls[c].state = "rejected" /\ calls[c].value = calls[d].value)
    /\ ReadBacks(c) = {d} /\ ReadBacks(d) = {}
    /\ Answered(d) => d = Len(calls) \/ \A e \in (d + 1)..Len(calls) : calls[e].parent # c

\* C10's case: a create accepted with 201 is rejected with the body of its
\* read-back, which the server answered 400.
C10_Witness ==
  \E c \in CallIds : \E d \in ReadBacks(c) :
    /\ StatusOf(c) = 201
    /\ Completed(d) /\ StatusOf(d) = 400
    /\ calls[c].state = "rejected" /\ calls[c].value = DecodedBodyOf(d)


====
